---- MODULE Spec2Model ----
(***************************************************************************)
(* State-machine model of the amazon-redis-session pool manager.           *)
(*                                                                         *)
(* The Redis database is modelled by two variables: `lists` (the           *)
(* per-country Index, key "<country>:session-ids") and `hashes` (the       *)
(* per-country Record hash, key "<country>:cookies").  Every Redis         *)
(* command, every MULTI/EXEC transaction and every Lua script is one       *)
(* atomic step; a Go method that issues several commands is several        *)
(* steps, and the caller's position between them is kept in `pc`.          *)
(***************************************************************************)
EXTENDS Integers, Sequences, FiniteSets, TLC

VARIABLES
    lists,      \* [list key -> sequence of session ids]
    hashes,     \* [hash key -> [field -> value]], a missing field is outside DOMAIN
    now,        \* time.Now().Unix()
    pc,         \* [caller -> position inside the method it is running]
    ret,        \* the most recent return of a method: method, arguments, error, value
    popBase,    \* history: each Index as it was when last changed by anything but LPOP
    popLog      \* history: the <<caller, id>> pairs LPOP handed out since then

vars == <<lists, hashes, now, pc, ret, popBase, popLog>>

----------------------------------------------------------------------------
(* Bounds of the model *)

MaxLen == 2         \* longest Index a push may build
MaxUsage == 2       \* highest usage count a checkout may reach
MaxTime == 1        \* last value of the clock

Procs == {"p1", "p2"}
Ids == {"a", "b"}
Countries == {"US", "XX"}

----------------------------------------------------------------------------
(* Keys and fields *)

\* The domain table, cut down to one entry; "XX" is a country without a domain.
defaultCountryCodeDomainMap == [c \in {"US"} |-> "https://www.amazon.com"]

sessionIdsKey(country) == <<country, "session-ids">>
cookiesKey(country) == <<country, "cookies">>

\* Hash fields are tuples: <<id>> is the field "<id>", <<id, s>> the field "<id>:<s>".
payloadKey(sessionID) == <<sessionID>>
lastCheckedKey(sessionID) == <<sessionID, "last-checked">>
usageCountKey(sessionID) == <<sessionID, "usage-count">>

ListKeys == {sessionIdsKey(c) : c \in Countries}
HashKeys == {cookiesKey(c) : c \in Countries}

Index(country) == lists[sessionIdsKey(country)]
Record(country) == hashes[cookiesKey(country)]

----------------------------------------------------------------------------
(* Redis commands *)

EmptyHash == [f \in {} |-> 0]
RedisNil == "redis: nil"            \* go-redis' error for a nil reply
LuaNil == <<>>                      \* a Lua nil in an argument position

HExists(h, f) == f \in DOMAIN h
HSet(h, f, v) == [x \in DOMAIN h \cup {f} |-> IF x = f THEN v ELSE h[x]]
HDel(h, fs) == [x \in DOMAIN h \ fs |-> h[x]]
HIncrBy(h, f, n) == HSet(h, f, (IF HExists(h, f) THEN h[f] ELSE 0) + n)

\* A Redis value as a script or a client sees it: nil, or the stored value.
RedisVal(v) == [nil |-> FALSE, val |-> v]
RedisNilVal == [nil |-> TRUE, val |-> 0]
HGet(h, f) == IF HExists(h, f) THEN RedisVal(h[f]) ELSE RedisNilVal

LLen(l) == Len(l)
LIndex(l, i) == IF 0 <= i /\ i < Len(l) THEN l[i + 1] ELSE RedisNil
RPush(l, v) == Append(l, v)

\* LPOP: the reply and the list it leaves.
LPopReply(l) == IF l = <<>> THEN RedisNil ELSE Head(l)
\* Faulty variant of LPopRest: the front entry is read but left in the list.
LPopRestPeek(l) == l
LPopRest(l) == IF l = <<>> THEN l ELSE Tail(l)

RECURSIVE LRemAll(_, _)
LRemAll(l, v) ==
    IF l = <<>> THEN <<>>
    ELSE IF Head(l) = v THEN LRemAll(Tail(l), v)
    ELSE <<Head(l)>> \o LRemAll(Tail(l), v)

RECURSIVE LRemFirst(_, _)
LRemFirst(l, v) ==
    IF l = <<>> THEN <<>>
    ELSE IF Head(l) = v THEN Tail(l)
    ELSE <<Head(l)>> \o LRemFirst(Tail(l), v)

\* Faulty variant of LRem: the front entry goes whether or not it matches.
LRemFront(l, count, v) == IF l = <<>> THEN l ELSE Tail(l)
\* LREM key count value, for the two counts the code uses (1 and 0).
LRem(l, count, v) == IF count = 0 THEN LRemAll(l, v) ELSE LRemFirst(l, v)

\* LRANGE key start stop, with Redis' handling of negative and out-of-range offsets.
LRange(l, start, stop) ==
    LET s0 == IF start < 0 THEN start + Len(l) ELSE start
        e0 == IF stop < 0 THEN stop + Len(l) ELSE stop
        s == IF s0 < 0 THEN 0 ELSE s0
        e == IF e0 >= Len(l) THEN Len(l) - 1 ELSE e0
    IN  IF s > e \/ s >= Len(l) THEN <<>> ELSE SubSeq(l, s + 1, e + 1)

----------------------------------------------------------------------------
(* Errors.  An error is a tuple of message parts; <<>> is Go's nil error. *)

NoErr == <<>>
NoSession == <<>>                   \* the nil *Session returned with an error
ErrNoSessions == <<"no sessions available for the specified country">>
ErrRedisNil == <<RedisNil>>
ErrDomain == <<"domain not found for country">>
ErrCountry == <<"country not found in session">>
ErrNoCookies == <<"cookies jar and cookies not found in session">>
ErrNoSessionID == <<"session-id not found in session">>
ErrValues == <<"unepxected number of values returned from Lua script">>
ErrUnmarshal == <<"json: unexpected end of JSON input">>

\* What the script engine raises, and what the scripts raise themselves.
LuaErrArgs == "Lua redis lib command arguments must be strings or integers"
LuaErrGlobal == "Script attempted to access nonexistent global variable 'sessionId'"
LuaNotFound == "NOT FOUND"
ErrEval(msg) == <<"redis eval error", msg>>

\* The errors the specification files under NotFound.
NotFoundErrs == {ErrNoSessions, ErrRedisNil, ErrEval(LuaNotFound)}

----------------------------------------------------------------------------
(* Lua scripts.  A script is atomic and is not rolled back when it raises. *)

\* ARGV[i]: nil beyond the arguments the caller passed.
ARG(ARGV, i) == IF i <= Len(ARGV) THEN ARGV[i] ELSE LuaNil

\* getSessionCmd on the hash KEYS[1]: the hash it leaves and its reply.
\* The commands run in the order of the script: HGET, HINCRBY, HGET, HGET, and
\* only then the test of `cookies`.  redis.call raises when an argument is nil
\* ("command arguments must be strings or integers"), so a caller that passes
\* fewer than four arguments aborts the script at the HGET of ARGV[4], after
\* HINCRBY has been applied.  With four arguments the reply has four elements
\* (an absent field is false in Lua, which does not end the table).
getSessionCmd(h, ARGV) ==
    LET cookies == HGet(h, ARGV[1])
        h1 == HIncrBy(h, ARGV[2], 1)
        usageCount == RedisVal(h1[ARGV[2]])
        lastCheck == HGet(h1, ARGV[3])
    IN  IF ARG(ARGV, 4) = LuaNil
        THEN [hash |-> h1, err |-> LuaErrArgs, values |-> <<>>]
        ELSE IF cookies.nil
        THEN [hash |-> h1, err |-> LuaNotFound, values |-> <<>>]
        ELSE [hash |-> h1, err |-> "",
              values |-> <<cookies, usageCount, lastCheck, HGet(h1, ARG(ARGV, 4))>>]

\* listSessionCmd on the list KEYS[1] and the hash KEYS[2].  The first statement
\* of the loop body that uses the loop's id concatenates the global sessionId,
\* which this script never defines, so the script raises at the first id before
\* it has inserted anything; it returns its (empty) data only for an empty range.
listSessionCmd(l, h, start, stop) ==
    LET ids == LRange(l, start, stop)
    IN  IF ids = <<>>
        THEN [err |-> "", data |-> <<>>]
        ELSE [err |-> LuaErrGlobal, data |-> <<>>]

\* The inner loop of cleanupSessionsCmd over the LRANGE snapshot of one country.
RECURSIVE cleanupCountry(_, _, _, _, _, _)
cleanupCountry(sessionIds, l, h, currentTime, timeDiffArg, usageArg) ==
    IF sessionIds = <<>> THEN [list |-> l, hash |-> h]
    ELSE LET sessionId == Head(sessionIds)
             lastChecked == HGet(h, lastCheckedKey(sessionId))
             usageCount == HGet(h, usageCountKey(sessionId))
             evict == /\ ~lastChecked.nil
                      /\ \/ currentTime - lastChecked.val >= timeDiffArg
                         \/ (~usageCount.nil /\ usageCount.val >= usageArg)
         IN  IF evict
             THEN cleanupCountry(Tail(sessionIds), LRem(l, 0, sessionId),
                                 HDel(h, {payloadKey(sessionId), lastCheckedKey(sessionId),
                                          usageCountKey(sessionId)}),
                                 currentTime, timeDiffArg, usageArg)
             ELSE cleanupCountry(Tail(sessionIds), l, h, currentTime, timeDiffArg, usageArg)

\* cleanupSessionsCmd: the database (lists and hashes) the sweep leaves.
cleanupSessionsCmd(ls, hs, currentTime, timeDiffArg, usageArg) ==
    \* keys: KEYS "*:cookies", the countries whose hash exists
    LET swept(c) == cleanupCountry(ls[sessionIdsKey(c)], ls[sessionIdsKey(c)],
                                   hs[cookiesKey(c)], currentTime, timeDiffArg, usageArg)
        keys == {c \in Countries : DOMAIN hs[cookiesKey(c)] # {}}
    IN  [lists |-> [k \in ListKeys |-> IF k[1] \in keys THEN swept(k[1]).list ELSE ls[k]],
         hashes |-> [k \in HashKeys |-> IF k[1] \in keys THEN swept(k[1]).hash ELSE hs[k]]]

----------------------------------------------------------------------------
(* Cookies and payloads *)

\* A cookie name is a tuple of its parts, so that a prefix can be tested:
\* <<"ubid-", "main">> is the name "ubid-main".
Cookie(name, value) == [Name |-> name, Value |-> value]
SessionIdName == <<"session-id">>
HasPrefix(name, prefix) == Len(name) >= 1 /\ name[1] = prefix

\* The test of the loop in PushSession that decides whether a cookie is kept.
AllowListed(name) ==
    \/ name = <<"i18n-prefs">>
    \/ name = SessionIdName
    \/ name = <<"session-id-time">>
    \/ HasPrefix(name, "ubid-")
    \/ HasPrefix(name, "lc-")

\* cookiesMap after the loop: the last value of every allow-listed name.
cookiesMapOf(cookies) ==
    LET kept == {i \in 1..Len(cookies) : AllowListed(cookies[i].Name)}
        last(n) == CHOOSE i \in kept :
                       /\ cookies[i].Name = n
                       /\ \A k \in kept : cookies[k].Name = n => k <= i
    IN  [n \in {cookies[i].Name : i \in kept} |-> cookies[last(n)].Value]

\* json.Marshal of a map[string]string, as the set of its "name":"value" members,
\* and json.Unmarshal back into a map.
Marshal(cookiesMap) == {<<n, cookiesMap[n]>> : n \in DOMAIN cookiesMap}
Unmarshal(cookieData) ==
    [n \in {m[1] : m \in cookieData} |-> (CHOOSE m \in cookieData : m[1] = n)[2]]

\* A cookie jar: nil, or the cookies it returns for each URL.
NilJar == [nil |-> TRUE, cookies |-> <<>>]
JarOf(url, cookies) == [nil |-> FALSE, cookies |-> <<<<url, cookies>>>>]
JarCookies(jar, url) ==
    IF \E i \in 1..Len(jar.cookies) : jar.cookies[i][1] = url
    THEN jar.cookies[CHOOSE i \in 1..Len(jar.cookies) : jar.cookies[i][1] = url][2]
    ELSE <<>>

\* getCountryURL: found, and the URL.
getCountryURL(country) ==
    IF country \in DOMAIN defaultCountryCodeDomainMap
    THEN [err |-> NoErr, url |-> defaultCountryCodeDomainMap[country]]
    ELSE [err |-> ErrDomain, url |-> ""]

----------------------------------------------------------------------------
(* The Go methods as functions of the database they run on *)

\* Faulty variant of PushSessionPrepare: the test of an empty sessionID is left out.
PushSessionPrepareNoId(session) ==
    LET fail(e) == [err |-> e, sessionID |-> "", cookieData |-> {}]
        cookies == IF session.Jar.nil
                   THEN session.Cookies
                   ELSE JarCookies(session.Jar, getCountryURL(session.Country).url)
        cookiesMap == cookiesMapOf(cookies)
        sessionID == IF SessionIdName \in DOMAIN cookiesMap
                     THEN cookiesMap[SessionIdName] ELSE ""
    IN  IF session.Country = "" THEN fail(ErrCountry)
        ELSE IF session.Jar.nil /\ Len(session.Cookies) = 0 THEN fail(ErrNoCookies)
        ELSE IF ~session.Jar.nil /\ getCountryURL(session.Country).err # NoErr
        THEN fail(ErrDomain)
        ELSE [err |-> NoErr, sessionID |-> sessionID, cookieData |-> Marshal(cookiesMap)]

\* PushSession up to the transaction: the validation error, or the id and the
\* serialized payload the transaction writes.
PushSessionPrepare(session) ==
    LET fail(e) == [err |-> e, sessionID |-> "", cookieData |-> {}]
        cookies == IF session.Jar.nil
                   THEN session.Cookies
                   ELSE JarCookies(session.Jar, getCountryURL(session.Country).url)
        cookiesMap == cookiesMapOf(cookies)
        sessionID == IF SessionIdName \in DOMAIN cookiesMap
                     THEN cookiesMap[SessionIdName] ELSE ""
    IN  IF session.Country = "" THEN fail(ErrCountry)
        ELSE IF session.Jar.nil /\ Len(session.Cookies) = 0 THEN fail(ErrNoCookies)
        ELSE IF ~session.Jar.nil /\ getCountryURL(session.Country).err # NoErr
        THEN fail(ErrDomain)
        ELSE IF sessionID = "" THEN fail(ErrNoSessionID)
        ELSE [err |-> NoErr, sessionID |-> sessionID, cookieData |-> Marshal(cookiesMap)]

\* Faulty variant of PushSessionHash: a Record that exists is left as it is.
PushSessionHashIfAbsent(h, sessionID, cookieData, lastChecked) ==
    IF HExists(h, payloadKey(sessionID)) THEN h
    ELSE HSet(HSet(HSet(h, payloadKey(sessionID), cookieData),
                   lastCheckedKey(sessionID), lastChecked),
              usageCountKey(sessionID), 0)

\* The three HSETs of the transaction of PushSession.
PushSessionHash(h, sessionID, cookieData, lastChecked) ==
    HSet(HSet(HSet(h, payloadKey(sessionID), cookieData),
              lastCheckedKey(sessionID), lastChecked),
         usageCountKey(sessionID), 0)

\* GetSession: the hash it leaves, the error and the session it returns.
GetSession(h, country, sessionID) ==
    LET none == NoSession      \* return nil, err
        res == getSessionCmd(h, <<payloadKey(sessionID), usageCountKey(sessionID),
                                  lastCheckedKey(sessionID)>>)
        values == res.values
    IN  IF getCountryURL(country).err # NoErr
        THEN [hash |-> h, err |-> getCountryURL(country).err, session |-> none]
        ELSE IF res.err # ""
        THEN [hash |-> res.hash, err |-> ErrEval(res.err), session |-> none]
        ELSE IF Len(values) # 3
        THEN [hash |-> res.hash, err |-> ErrValues, session |-> none]
        ELSE IF values[1].nil
        THEN [hash |-> res.hash, err |-> ErrUnmarshal, session |-> none]
        ELSE [hash |-> res.hash, err |-> NoErr,
              session |-> [Country |-> country,
                           Cookies |-> Unmarshal(values[1].val),
                           SessionID |-> sessionID,
                           UsageCount |-> values[2].val,
                           LastCheckedTimeUnix |->
                               IF values[3].nil THEN 0 ELSE values[3].val]]

\* Pagination.start and Pagination.stop.
start(pgn) == pgn.Size * pgn.Page
stop(pgn) == pgn.Size * pgn.Page + pgn.Size - 1

\* ListSession: the error and the ids of the sessions it returns, in order.
\* The script's data is empty whenever the script succeeds, so the loop that
\* builds the sessions runs zero times.
ListSession(l, h, country, pgn) ==
    LET res == listSessionCmd(l, h, -stop(pgn) - 1, -start(pgn) - 1)
    IN  IF getCountryURL(country).err # NoErr
        THEN [err |-> getCountryURL(country).err, sessions |-> <<>>]
        ELSE IF res.err # ""
        THEN [err |-> ErrEval(res.err), sessions |-> <<>>]
        ELSE [err |-> NoErr, sessions |-> res.data]

\* KEYS "*:cookies": the countries whose hash exists, in any order.
KeysCookies(hs) ==
    LET found == {c \in Countries : DOMAIN hs[cookiesKey(c)] # {}}
    IN  {keys \in [1..Cardinality(found) -> found] :
            \A i, k \in 1..Cardinality(found) : i # k => keys[i] # keys[k]}

\* allSessionCmd: six values for every entry of every Index whose country has a
\* hash; an absent field is false in Lua and nil in the reply.  No method writes
\* "<id>:created-at", so the sixth value is always nil.
RECURSIVE allSessionIds(_, _, _)
allSessionIds(countryCode, sessionIds, h) ==
    IF sessionIds = <<>> THEN <<>>
    ELSE LET sessionId == Head(sessionIds)
         IN  <<RedisVal(countryCode), RedisVal(sessionId),
               HGet(h, payloadKey(sessionId)),
               HGet(h, lastCheckedKey(sessionId)),
               HGet(h, usageCountKey(sessionId)),
               HGet(h, <<sessionId, "created-at">>)>>
             \o allSessionIds(countryCode, Tail(sessionIds), h)

RECURSIVE allSessionCmd(_, _, _)
allSessionCmd(ls, hs, keys) ==
    IF keys = <<>> THEN <<>>
    ELSE allSessionIds(Head(keys), LRange(ls[sessionIdsKey(Head(keys))], 0, -1),
                       hs[cookiesKey(Head(keys))])
         \o allSessionCmd(ls, hs, Tail(keys))

\* cast.ToString of a reply value: "" for nil.
castToString(v) == IF v.nil THEN "" ELSE v.val
\* cast.ToInt64 of a reply value: 0 for nil.
castToInt64(v) == IF v.nil THEN 0 ELSE v.val

\* The loop of GetAllSessions over the reply, i counting from 0 in steps of 5.
RECURSIVE GetAllSessionsLoop(_, _, _)
GetAllSessionsLoop(data, i, sessions) ==
    IF i >= Len(data) THEN [err |-> NoErr, sessions |-> sessions]
    ELSE LET country == castToString(data[i + 1])
         IN  IF getCountryURL(country).err # NoErr
             THEN [err |-> getCountryURL(country).err, sessions |-> <<>>]
             ELSE IF i + 5 > Len(data)
             THEN [err |-> <<"index out of range">>, sessions |-> <<>>]
             ELSE IF data[i + 3].nil
             THEN [err |-> ErrUnmarshal, sessions |-> <<>>]
             ELSE GetAllSessionsLoop(data, i + 5,
                      Append(sessions,
                             [Country |-> country,
                              Cookies |-> Unmarshal(data[i + 3].val),
                              SessionID |-> castToString(data[i + 2]),
                              UsageCount |-> castToInt64(data[i + 5]),
                              LastCheckedTimeUnix |-> castToInt64(data[i + 4])]))

\* GetAllSessions, for the order in which KEYS listed the hashes: read-only.
GetAllSessions(ls, hs, keys) == GetAllSessionsLoop(allSessionCmd(ls, hs, keys), 0, <<>>)

----------------------------------------------------------------------------
(* Inputs *)

PlainSession(country, id) ==
    [Country |-> country, Jar |-> NilJar, Cookies |-> <<Cookie(SessionIdName, id)>>]

\* A jar for the US site holding session "b" with one more allow-listed cookie and
\* one cookie outside the allow-list.
RichCookies ==
    <<Cookie(<<"csm-hit">>, "h"), Cookie(SessionIdName, "b"), Cookie(<<"ubid-", "main">>, "u")>>
JarSession(country) ==
    [Country |-> country,
     Jar |-> JarOf(defaultCountryCodeDomainMap["US"], RichCookies),
     Cookies |-> <<>>]

ValidPushes == {PlainSession(c, id) : c \in Countries, id \in Ids} \cup {JarSession("US")}
InvalidPushes ==
    {PlainSession("", "a"),
     [Country |-> "US", Jar |-> NilJar, Cookies |-> <<>>],
     JarSession("XX"),
     [Country |-> "US", Jar |-> NilJar, Cookies |-> <<Cookie(<<"ubid-", "main">>, "u")>>]}
PushInputs == ValidPushes \cup InvalidPushes

\* Page requests: Size 0 is "everything".
Pages == [Size : 0..MaxLen, Page : 0..1]

\* A sweep threshold that no age and no usage count reaches.
Unreachable == MaxTime + MaxUsage + 1

----------------------------------------------------------------------------
(* State *)

IdlePc == [op |-> "idle"]

Returned(op, country, id, err, val) ==
    [op |-> op, country |-> country, id |-> id, err |-> err, val |-> val]

Init ==
    /\ lists = [k \in ListKeys |-> <<>>]
    /\ hashes = [k \in HashKeys |-> EmptyHash]
    /\ now = 0
    /\ pc = [p \in Procs |-> IdlePc]
    /\ ret = Returned("none", "", "", NoErr, NoSession)
    /\ popBase = [k \in ListKeys |-> <<>>]
    /\ popLog = [k \in ListKeys |-> <<>>]

\* History kept for the pop claims: a list changed by anything but LPOP starts afresh.
ListsWritten(newLists) ==
    /\ lists' = newLists
    /\ popBase' = [k \in ListKeys |-> IF newLists[k] # lists[k] THEN newLists[k] ELSE popBase[k]]
    /\ popLog' = [k \in ListKeys |-> IF newLists[k] # lists[k] THEN <<>> ELSE popLog[k]]

ListsUnchanged == UNCHANGED <<lists, popBase, popLog>>

Return(p, op, country, id, err, val) ==
    /\ pc' = [pc EXCEPT ![p] = IdlePc]
    /\ ret' = Returned(op, country, id, err, val)

UsageOf(h, id) == IF HExists(h, usageCountKey(id)) THEN h[usageCountKey(id)] ELSE 0

----------------------------------------------------------------------------
(* Actions: one per Redis round trip of each method *)

Tick ==
    /\ now < MaxTime
    /\ now' = now + 1
    /\ UNCHANGED <<lists, hashes, pc, ret, popBase, popLog>>

\* PushSession: validation, then HSET x3 and RPUSH in one MULTI/EXEC.
PushSession(p, session) ==
    LET prep == PushSessionPrepare(session)
        lk == sessionIdsKey(session.Country)
        hk == cookiesKey(session.Country)
    IN  /\ pc[p] = IdlePc
        /\ IF prep.err # NoErr
           THEN /\ UNCHANGED <<hashes, now>>
                /\ ListsUnchanged
                /\ Return(p, "PushSession", session.Country, "", prep.err, NoSession)
           ELSE /\ Len(lists[lk]) < MaxLen
                /\ hashes' = [hashes EXCEPT ![hk] =
                                 PushSessionHash(@, prep.sessionID, prep.cookieData, now)]
                /\ ListsWritten([lists EXCEPT ![lk] = RPush(@, prep.sessionID)])
                /\ UNCHANGED now
                /\ Return(p, "PushSession", session.Country, prep.sessionID, NoErr, NoSession)

\* The body of GetSession, run by caller p for method op.
RunGetSession(p, op, country, sessionID) ==
    LET hk == cookiesKey(country)
        r == GetSession(hashes[hk], country, sessionID)
    IN  /\ UsageOf(hashes[hk], sessionID) < MaxUsage
        /\ hashes' = [hashes EXCEPT ![hk] = r.hash]
        /\ ListsUnchanged
        /\ UNCHANGED now
        /\ Return(p, op, country, sessionID, r.err, r.session)

\* GetSession called directly.
GetSessionCall(p, country, sessionID) ==
    /\ pc[p] = IdlePc
    /\ RunGetSession(p, "GetSession", country, sessionID)

\* The test GetRandomSession makes on the count LLEN returned.
\* Faulty variant of NoSessions: a count of 0 passes the test.
NoSessionsNegative(count) == count < 0
NoSessions(count) == count = 0

\* GetRandomSession, first round trip: LLEN.
GetRandomSessionLLen(p, country) ==
    LET count == LLen(Index(country))
    IN  /\ pc[p] = IdlePc
        /\ UNCHANGED <<hashes, now>>
        /\ ListsUnchanged
        /\ IF NoSessions(count)
           THEN Return(p, "GetRandomSession", country, "", ErrNoSessions, NoSession)
           ELSE /\ pc' = [pc EXCEPT ![p] = [op |-> "GetRandomSession", at |-> "LIndex",
                                            country |-> country, count |-> count]]
                /\ UNCHANGED ret

\* GetRandomSession, second round trip: rand.Int63n(count) and LINDEX.
GetRandomSessionLIndex(p) ==
    /\ pc[p].op = "GetRandomSession"
    /\ pc[p].at = "LIndex"
    /\ \E randIndex \in 0..(pc[p].count - 1) :
           LET sessionID == LIndex(Index(pc[p].country), randIndex)
           IN  IF sessionID = RedisNil
               THEN Return(p, "GetRandomSession", pc[p].country, "", ErrRedisNil, NoSession)
               ELSE /\ pc' = [pc EXCEPT ![p] = [op |-> "GetRandomSession", at |-> "GetSession",
                                                country |-> pc[p].country,
                                                sessionID |-> sessionID]]
                    /\ UNCHANGED ret
    /\ UNCHANGED <<hashes, now>>
    /\ ListsUnchanged

\* PopSession, first round trip: LPOP.
PopSessionLPop(p, country) ==
    LET lk == sessionIdsKey(country)
        sessionID == LPopReply(lists[lk])
    IN  /\ pc[p] = IdlePc
        /\ UNCHANGED <<hashes, now, popBase>>
        /\ lists' = [lists EXCEPT ![lk] = LPopRest(@)]
        /\ IF sessionID = RedisNil
           THEN /\ Return(p, "PopSession", country, "", ErrRedisNil, NoSession)
                /\ UNCHANGED popLog
           ELSE /\ pc' = [pc EXCEPT ![p] = [op |-> "PopSession", at |-> "GetSession",
                                            country |-> country, sessionID |-> sessionID]]
                /\ popLog' = [popLog EXCEPT ![lk] = Append(@, sessionID)]
                /\ UNCHANGED ret

\* The call of GetSession that ends GetRandomSession and PopSession.
GetSessionTail(p) ==
    /\ pc[p].op \in {"GetRandomSession", "PopSession"}
    /\ pc[p].at = "GetSession"
    /\ RunGetSession(p, pc[p].op, pc[p].country, pc[p].sessionID)


\* ListSession: one run of listSessionCmd, read-only.
ListSessionCall(p, country, pgn) ==
    LET r == ListSession(Index(country), Record(country), country, pgn)
    IN  /\ pc[p] = IdlePc
        /\ UNCHANGED <<hashes, now>>
        /\ ListsUnchanged
        /\ pc' = pc
        /\ ret' = Returned("ListSession", country, pgn, r.err, r.sessions)

\* ListCountrySession: ListSession with Size 0 and Page 0.
ListCountrySession(p, country) ==
    ListSessionCall(p, country, [Size |-> 0, Page |-> 0])

\* UpdateLastCheckedTimestamp: one HSET.
UpdateLastCheckedTimestamp(p, country, sessionID) ==
    /\ pc[p] = IdlePc
    /\ hashes' = [hashes EXCEPT ![cookiesKey(country)] =
                     HSet(@, lastCheckedKey(sessionID), now)]
    /\ ListsUnchanged
    /\ UNCHANGED now
    /\ Return(p, "UpdateLastCheckedTimestamp", country, sessionID, NoErr, NoSession)

\* DeleteSession, first round trip: LREM key 1 id.
DeleteSessionLRem(p, country, sessionID) ==
    /\ pc[p] = IdlePc
    /\ ListsWritten([lists EXCEPT ![sessionIdsKey(country)] = LRem(@, 1, sessionID)])
    /\ pc' = [pc EXCEPT ![p] = [op |-> "DeleteSession", at |-> "HDel",
                                country |-> country, sessionID |-> sessionID]]
    /\ UNCHANGED <<hashes, now, ret>>

\* DeleteSession, second round trip: HDEL of the three fields.
DeleteSessionHDel(p) ==
    /\ pc[p].op = "DeleteSession"
    /\ pc[p].at = "HDel"
    /\ hashes' = [hashes EXCEPT ![cookiesKey(pc[p].country)] =
                     HDel(@, {payloadKey(pc[p].sessionID), lastCheckedKey(pc[p].sessionID),
                              usageCountKey(pc[p].sessionID)})]
    /\ ListsUnchanged
    /\ UNCHANGED now
    /\ Return(p, "DeleteSession", pc[p].country, pc[p].sessionID, NoErr, NoSession)

\* CleanupSessions: one run of cleanupSessionsCmd.
CleanupSessions(p, timeDiffThreshold, usageCountThreshold) ==
    LET db == cleanupSessionsCmd(lists, hashes, now, timeDiffThreshold, usageCountThreshold)
    IN  /\ pc[p] = IdlePc
        /\ hashes' = db.hashes
        /\ ListsWritten(db.lists)
        /\ UNCHANGED now
        /\ Return(p, "CleanupSessions", "", "", NoErr, NoSession)

\* ClearAllCookies, first round trip of an iteration of its loop over the domain
\* table (Go ranges over the map in no fixed order): DEL of the country's Index.
ClearAllCookiesDelIds(p) ==
    LET left == IF pc[p] = IdlePc THEN DOMAIN defaultCountryCodeDomainMap ELSE pc[p].left
    IN  /\ pc[p] = IdlePc \/ (pc[p].op = "ClearAllCookies" /\ pc[p].at = "DelIds")
        /\ \E country \in left :
              /\ ListsWritten([lists EXCEPT ![sessionIdsKey(country)] = <<>>])
              /\ pc' = [pc EXCEPT ![p] = [op |-> "ClearAllCookies", at |-> "DelCookies",
                                          country |-> country, left |-> left \ {country}]]
        /\ UNCHANGED <<hashes, now, ret>>

\* ClearAllCookies, second round trip of the iteration: DEL of the country's hash;
\* the method returns after the last country of the table.
ClearAllCookiesDelCookies(p) ==
    /\ pc[p].op = "ClearAllCookies"
    /\ pc[p].at = "DelCookies"
    /\ hashes' = [hashes EXCEPT ![cookiesKey(pc[p].country)] = EmptyHash]
    /\ ListsUnchanged
    /\ UNCHANGED now
    /\ IF pc[p].left = {}
       THEN Return(p, "ClearAllCookies", "", "", NoErr, NoSession)
       ELSE /\ pc' = [pc EXCEPT ![p] = [op |-> "ClearAllCookies", at |-> "DelIds",
                                        left |-> pc[p].left]]
            /\ ret' = ret

----------------------------------------------------------------------------
(* Specifications *)

\* The sweeps a caller may ask for: by age alone, by usage alone, by neither.
Sweeps == {<<0, Unreachable>>, <<Unreachable, 1>>, <<Unreachable, Unreachable>>}

\* Every method, called by p on the given countries.
Call(p, countries) ==
    \/ \E session \in PushInputs : session.Country \in countries \cup {""} /\ PushSession(p, session)
    \/ \E country \in countries, id \in Ids : GetSessionCall(p, country, id)
    \/ \E country \in countries : GetRandomSessionLLen(p, country)
    \/ GetRandomSessionLIndex(p)
    \/ \E country \in countries : PopSessionLPop(p, country)
    \/ GetSessionTail(p)
    \/ \E country \in countries, pgn \in Pages : ListSessionCall(p, country, pgn)
    \/ \E country \in countries : ListCountrySession(p, country)
    \/ \E country \in countries, id \in Ids : UpdateLastCheckedTimestamp(p, country, id)
    \/ \E country \in countries, id \in Ids : DeleteSessionLRem(p, country, id)
    \/ DeleteSessionHDel(p)
    \/ \E sweep \in Sweeps : CleanupSessions(p, sweep[1], sweep[2])

\* The pool under concurrent callers, interleaved at every Redis round trip:
\* pushes, the two acquisitions, deletion and the sweep on one country.
Next ==
    \E p \in Procs :
        \/ \E id \in Ids : PushSession(p, PlainSession("US", id))
        \/ GetRandomSessionLLen(p, "US")
        \/ GetRandomSessionLIndex(p)
        \/ PopSessionLPop(p, "US")
        \/ GetSessionTail(p)
        \/ \E id \in Ids : DeleteSessionLRem(p, "US", id)
        \/ DeleteSessionHDel(p)
        \/ \E sweep \in Sweeps : CleanupSessions(p, sweep[1], sweep[2])

Spec == Init /\ [][Next]_vars

\* One caller: every method runs to its end before the next one starts.
NextSerial == Tick \/ Call("p1", {"US"})

SpecSerial == Init /\ [][NextSerial]_vars

\* The store under one caller that pushes (valid and invalid sessions, re-pushes
\* included), reads and deletes on one country while the clock advances.
StorePushes == {session \in ValidPushes : session.Country = "US"} \cup InvalidPushes
NextStore ==
    \/ Tick
    \/ \E session \in StorePushes : PushSession("p1", session)
    \/ \E id \in Ids : GetSessionCall("p1", "US", id)
    \/ \E id \in Ids : DeleteSessionLRem("p1", "US", id)
    \/ DeleteSessionHDel("p1")

SpecStore == Init /\ [][NextStore]_vars

\* One caller that pushes into any country, resets the store with ClearAllCookies
\* and acquires or reads sessions of the US.
NextClear ==
    \E p \in {"p1"} :
        \/ \E country \in Countries, id \in Ids : PushSession(p, PlainSession(country, id))
        \/ ClearAllCookiesDelIds(p)
        \/ ClearAllCookiesDelCookies(p)
        \/ \E id \in Ids : GetSessionCall(p, "US", id)
        \/ GetRandomSessionLLen(p, "US")
        \/ GetRandomSessionLIndex(p)
        \/ PopSessionLPop(p, "US")
        \/ GetSessionTail(p)

SpecClear == Init /\ [][NextClear]_vars

\* One caller that pushes into and pops from any country, with or without a
\* domain in the table, and deletes sessions.
NextPop ==
    \E p \in {"p1"} :
        \/ \E country \in Countries, id \in Ids : PushSession(p, PlainSession(country, id))
        \/ \E country \in Countries : PopSessionLPop(p, country)
        \/ GetSessionTail(p)
        \/ \E country \in Countries, id \in Ids : DeleteSessionLRem(p, country, id)
        \/ DeleteSessionHDel(p)

SpecPop == Init /\ [][NextPop]_vars

----------------------------------------------------------------------------
(* Claims *)

IsLive(country, id) == HExists(Record(country), payloadKey(id))

\* C1: after a successful PushSession of id x in a country of the domain table the
\* stored usage count of x is 0, and a GetSession of the stored session succeeds
\* and returns the stored count plus one, so that the n-th consecutive GetSession
\* after the push returns UsageCount = n.
C1_PushThenGet ==
    [][\A p \in Procs, x \in Ids :
          /\ PushSession(p, PlainSession("US", x)) => UsageOf(Record("US")', x) = 0
          /\ (GetSessionCall(p, "US", x) /\ IsLive("US", x))
                => /\ ret'.err = NoErr
                   /\ ret'.val.UsageCount = UsageOf(Record("US"), x) + 1]_vars

\* C2: every checkout of a live session, whichever caller runs it and however the
\* callers interleave, returns the stored usage count plus one and stores it, so
\* that k checkouts of a session with count u return u+1 .. u+k and leave u+k.
C2_Indivisible ==
    [][\A p \in Procs :
          (GetSessionTail(p) /\ IsLive(pc[p].country, pc[p].sessionID))
             => LET u == UsageOf(Record(pc[p].country), pc[p].sessionID)
                IN  /\ ret'.err = NoErr
                    /\ ret'.val.UsageCount = u + 1
                    /\ UsageOf(Record(pc[p].country)', pc[p].sessionID) = u + 1]_vars

\* C3: GetSession on an id whose payload field is absent returns a NotFound error
\* and leaves the country's Record hash as it was.
C3_MissKeepsRecord ==
    [][\A p \in Procs, x \in Ids :
          (GetSessionCall(p, "US", x) /\ ~IsLive("US", x))
             => /\ ret'.err \in NotFoundErrs
                /\ Record("US")' = Record("US")]_vars

Range(l) == {l[i] : i \in 1..Len(l)}
IsDistinct(l) == \A i, j \in 1..Len(l) : i # j => l[i] # l[j]
InPop(p) == pc[p].op = "PopSession" /\ pc[p].at = "GetSession"

\* C4: concurrent PopSession calls never hand out the same Index entry twice: the
\* ids LPOP has handed out since an Index last held n pairwise distinct entries are
\* a prefix of that Index, so they are pairwise distinct, at most n, and each is
\* gone from the Index.
C4_PopsDistinct ==
    \A k \in ListKeys :
        /\ popBase[k] = popLog[k] \o lists[k]
        /\ IsDistinct(popBase[k])
              => /\ IsDistinct(popLog[k])
                 /\ Len(popLog[k]) <= Len(popBase[k])
                 /\ Range(popLog[k]) \cap Range(lists[k]) = {}

\* Two callers are inside PopSession at once, each holding its own id of an Index
\* of two distinct entries.
C4_Witness ==
    \E p, q \in Procs :
        /\ p # q /\ InPop(p) /\ InPop(q)
        /\ pc[p].country = "US" /\ pc[q].country = "US"
        /\ pc[p].sessionID # pc[q].sessionID
        /\ popLog[sessionIdsKey("US")] = <<pc[p].sessionID, pc[q].sessionID>>
        /\ popBase[sessionIdsKey("US")] = popLog[sessionIdsKey("US")]
        /\ Index("US") = <<>>

\* C5: with one caller PopSession is a FIFO queue over the Index: on an empty
\* Index it returns NotFound and changes nothing, otherwise it removes exactly the
\* front entry and returns the session of that id.
C5_PopFifo ==
    [][\A p \in Procs :
          /\ PopSessionLPop(p, "US")
                => IF Index("US") = <<>>
                   THEN /\ ret'.err \in NotFoundErrs /\ ret'.op = "PopSession"
                        /\ pc'[p] = IdlePc
                        /\ Index("US")' = <<>>
                   ELSE /\ Index("US")' = Tail(Index("US"))
                        /\ InPop(p)'
                        /\ pc'[p].sessionID = Head(Index("US"))
          /\ (GetSessionTail(p) /\ InPop(p) /\ IsLive(pc[p].country, pc[p].sessionID))
                => /\ ret'.err = NoErr
                   /\ ret'.val.SessionID = pc[p].sessionID]_vars

\* C6: GetRandomSession on a country whose Index is empty returns NotFound in its
\* first round trip: the call is over, no checkout script has run, and the Index
\* and every Record field are unchanged.
C6_RandomOnEmpty ==
    [][\A p \in Procs :
          (GetRandomSessionLLen(p, "US") /\ Index("US") = <<>>)
             => /\ pc'[p] = IdlePc
                /\ ret' = Returned("GetRandomSession", "US", "", ErrNoSessions, NoSession)
                /\ lists' = lists
                /\ hashes' = hashes]_vars

\* GetRandomSession has returned NotFound on an empty Index while Record fields of
\* the country are still stored.
C6_Witness ==
    /\ ret.op = "GetRandomSession"
    /\ ret.err = ErrNoSessions
    /\ Index(ret.country) = <<>>
    /\ \E x \in Ids : IsLive(ret.country, x)

InRandom(p) == pc[p].op = "GetRandomSession" /\ pc[p].at = "GetSession"

\* C7: with one caller GetRandomSession on a non-empty Index succeeds: it goes on
\* to the positional fetch, resolves an id of the Index, and returns that session
\* with the Index unchanged and only that session's usage count raised by one.
C7_RandomSucceeds ==
    [][\A p \in Procs :
          /\ (GetRandomSessionLLen(p, "US") /\ Index("US") # <<>>) => pc'[p] # IdlePc
          /\ GetRandomSessionLIndex(p)
                => /\ InRandom(p)'
                   /\ pc'[p].sessionID \in Range(Index(pc[p].country))
          /\ (GetSessionTail(p) /\ InRandom(p))
                => LET c == pc[p].country
                       x == pc[p].sessionID
                   IN  /\ ret'.err = NoErr
                       /\ ret'.val.SessionID \in Range(Index(c))
                       /\ lists' = lists
                       /\ Record(c)' = HSet(Record(c), usageCountKey(x),
                                            UsageOf(Record(c), x) + 1)]_vars

\* C8: however other callers interleave, no step of GetRandomSession changes an
\* Index, and the call ends with a NotFound error or with the complete session of
\* the id its positional fetch resolved, in the country it was asked for.
C8_RandomRaceBenign ==
    [][\A p \in Procs :
          (\/ GetRandomSessionLLen(p, "US")
           \/ GetRandomSessionLIndex(p)
           \/ (GetSessionTail(p) /\ InRandom(p)))
             => /\ lists' = lists
                /\ pc'[p] = IdlePc
                      => \/ ret'.err \in NotFoundErrs
                         \/ /\ ret'.err = NoErr
                            /\ ret'.val.SessionID = pc[p].sessionID
                            /\ ret'.val.Country = pc[p].country]_vars

SessionIDsOf(sessions) == [i \in 1..Len(sessions) |-> sessions[i].SessionID]

\* The page the specification asks for: entries n - Page*Size, n - Page*Size - 1,
\* ... of an Index of n entries, at most Size of them.
NewestFirstPage(l, pgn) ==
    LET first == Len(l) - pgn.Size * pgn.Page
        k == IF first <= 0 THEN 0 ELSE IF first < pgn.Size THEN first ELSE pgn.Size
    IN  [i \in 1..k |-> l[first - i + 1]]

\* C9: ListSession with Size > 0 returns the sessions of the requested page of the
\* Index, most recently pushed first.
C9_NewestFirst ==
    (pc["p1"] = IdlePc /\ ret.op = "ListSession" /\ ret.id.Size > 0)
       => /\ ret.err = NoErr
          /\ SessionIDsOf(ret.val) = NewestFirstPage(Index(ret.country), ret.id)

\* C10: ListSession with Size = 0, whatever the Page, returns one session for every
\* entry of the Index and changes neither an Index nor a Record.
C10_ListAll ==
    [][\A p \in Procs, pgn \in Pages :
          (ListSessionCall(p, "US", pgn) /\ pgn.Size = 0)
             => /\ lists' = lists
                /\ hashes' = hashes
                /\ ret'.err = NoErr
                /\ Len(ret'.val) = Len(Index("US"))
                /\ Range(SessionIDsOf(ret'.val)) = Range(Index("US"))]_vars

FieldsOf(x) == {payloadKey(x), lastCheckedKey(x), usageCountKey(x)}
FieldsKept(c, x) ==
    \A f \in FieldsOf(x) :
        /\ HExists(Record(c)', f) <=> HExists(Record(c), f)
        /\ HExists(Record(c), f) => Record(c)'[f] = Record(c)[f]
NoFieldOf(h, x) == \A f \in FieldsOf(x) : ~HExists(h, f)

\* The sessions the specification has a sweep evict.
OverThreshold(h, x, A, U) ==
    \/ HExists(h, lastCheckedKey(x)) /\ now - h[lastCheckedKey(x)] >= A
    \/ UsageOf(h, x) >= U

\* C11: CleanupSessions(A, U) evicts exactly the Index entries over threshold: an
\* id of the Index is removed from the Index with all its Record fields if and
\* only if its lastChecked is recorded and at least A old or its usage is at least
\* U; every other Index entry and Record field is unchanged; and a sweep with
\* A = 0 leaves the Index empty.
C11_SweepExact ==
    [][\A p \in Procs, sweep \in Sweeps :
          CleanupSessions(p, sweep[1], sweep[2])
             => LET over(x) == OverThreshold(Record("US"), x, sweep[1], sweep[2])
                IN  /\ Index("US")' = SelectSeq(Index("US"), LAMBDA x : ~over(x))
                    /\ \A x \in Ids :
                          IF x \in Range(Index("US")) /\ over(x)
                          THEN NoFieldOf(Record("US")', x)
                          ELSE FieldsKept("US", x)
                    /\ sweep[1] = 0 => Index("US")' = <<>>]_vars

InFlight(p) == pc[p].op \in {"GetRandomSession", "PopSession"} /\ pc[p].at = "GetSession"

\* C12: when a sweep evicts session x while another caller has resolved x from the
\* Index and has its record read still to make, that read (GetSession on the
\* store the sweep leaves) returns NotFound and leaves no field of x in the store.
C12_SweepRaceClean ==
    [][\A q \in Procs, sweep \in Sweeps, p \in Procs :
          (/\ CleanupSessions(q, sweep[1], sweep[2])
           /\ InFlight(p)
           /\ IsLive(pc[p].country, pc[p].sessionID)
           /\ ~HExists(Record(pc[p].country)', payloadKey(pc[p].sessionID)))
             => LET read == GetSession(Record(pc[p].country)', pc[p].country, pc[p].sessionID)
                IN  /\ read.err \in NotFoundErrs
                    /\ NoFieldOf(read.hash, pc[p].sessionID)]_vars

Absent(c, x) == x \notin Range(Index(c)) /\ NoFieldOf(Record(c), x)

\* C13: a second DeleteSession(country, x), issued after a first one has returned
\* and with x absent from the Index and from the Record hash, changes neither an
\* Index nor a Record in either of its round trips and returns success.
C13_DeleteIdempotent ==
    [][\A p \in Procs, x \in Ids :
          /\ (/\ DeleteSessionLRem(p, "US", x)
              /\ ret = Returned("DeleteSession", "US", x, NoErr, NoSession)
              /\ Absent("US", x))
                => lists' = lists /\ hashes' = hashes
          /\ (/\ DeleteSessionHDel(p)
              /\ pc[p].sessionID = x
              /\ ret = Returned("DeleteSession", "US", x, NoErr, NoSession)
              /\ Absent("US", x))
                => /\ lists' = lists /\ hashes' = hashes
                   /\ ret' = Returned("DeleteSession", "US", x, NoErr, NoSession)]_vars

\* A second DeleteSession of x is between its two round trips, the first one
\* having returned success, while the Index still holds another session.
C13_Witness ==
    \E x \in Ids :
        /\ pc["p1"] = [op |-> "DeleteSession", at |-> "HDel", country |-> "US", sessionID |-> x]
        /\ ret = Returned("DeleteSession", "US", x, NoErr, NoSession)
        /\ Absent("US", x)
        /\ Index("US") # <<>>

\* The cookies PushSession reads: the jar's for the country's site, else the list.
InputCookies(session) ==
    IF session.Jar.nil THEN session.Cookies
    ELSE IF session.Country \in DOMAIN defaultCountryCodeDomainMap
    THEN JarCookies(session.Jar, defaultCountryCodeDomainMap[session.Country])
    ELSE <<>>

\* The four validation failures, as the specification lists them.
FailsValidation(session) ==
    \/ session.Country = ""
    \/ session.Jar.nil /\ session.Cookies = <<>>
    \/ ~session.Jar.nil /\ session.Country \notin DOMAIN defaultCountryCodeDomainMap
    \/ \A i \in 1..Len(InputCookies(session)) : InputCookies(session)[i].Name # SessionIdName

\* C14: a PushSession of a session that fails validation (empty country, no cookie
\* source, a jar for a country without a domain, no session-id cookie) returns an
\* error and changes no Index and no Record of any country.
C14_InvalidPushNoEffect ==
    [][\A p \in Procs, session \in PushInputs :
          (PushSession(p, session) /\ FailsValidation(session))
             => /\ ret'.op = "PushSession"
                /\ ret'.err \in {ErrCountry, ErrNoCookies, ErrDomain, ErrNoSessionID}
                /\ lists' = lists
                /\ hashes' = hashes]_vars

\* A push without a session-id cookie has returned its error on a store that
\* holds sessions.
C14_Witness ==
    /\ ret.op = "PushSession"
    /\ ret.err = ErrNoSessionID
    /\ Index("US") # <<>>
    /\ \E x \in Ids : IsLive("US", x)

\* The names the specification allows into a payload.
AllowedName(name) ==
    \/ name \in {<<"i18n-prefs">>, <<"session-id">>, <<"session-id-time">>}
    \/ Len(name) = 2 /\ name[1] \in {"ubid-", "lc-"}
AllowedCookies(session) ==
    {<<InputCookies(session)[i].Name, InputCookies(session)[i].Value>> :
        i \in {k \in 1..Len(InputCookies(session)) : AllowedName(InputCookies(session)[k].Name)}}

\* C15: the payload a successful PushSession writes holds exactly the allow-listed
\* cookies of its input, and a GetSession of a stored session returns the cookies
\* of the stored payload.
C15_PayloadAllowListed ==
    [][\A p \in Procs :
          /\ \A session \in PushInputs :
                (PushSession(p, session) /\ ret'.err = NoErr)
                   => /\ HExists(Record(session.Country)', payloadKey(ret'.id))
                      /\ Record(session.Country)'[payloadKey(ret'.id)] = AllowedCookies(session)
          /\ \A x \in Ids :
                (GetSessionCall(p, "US", x) /\ IsLive("US", x))
                   => /\ ret'.err = NoErr
                      /\ Marshal(ret'.val.Cookies) = Record("US")[payloadKey(x)]]_vars

\* C16: when ClearAllCookies returns, every country that holds an Index entry or a
\* payload (so that a PushSession into it has succeeded) is left with an empty
\* Index and no Record field, and a PopSession, GetRandomSession or GetSession
\* called right after the reset returns NotFound.
C16_ClearAll ==
    [][\A p \in Procs :
          /\ (ClearAllCookiesDelCookies(p) /\ pc'[p] = IdlePc)
                => \A c \in Countries :
                      (Index(c) # <<>> \/ \E x \in Ids : IsLive(c, x))
                         => Index(c)' = <<>> /\ Record(c)' = EmptyHash
          /\ ret.op = "ClearAllCookies"
                => /\ \A x \in Ids : GetSessionCall(p, "US", x) => ret'.err \in NotFoundErrs
                   /\ PopSessionLPop(p, "US")
                         => ret'.op = "PopSession" /\ ret'.err \in NotFoundErrs
                   /\ GetRandomSessionLLen(p, "US")
                         => ret'.op = "GetRandomSession" /\ ret'.err \in NotFoundErrs]_vars

C18_IndexHasRecord ==
    (\A p \in Procs : pc[p] = IdlePc)
       => \A c \in Countries : \A x \in Range(Index(c)) : IsLive(c, x)

FullyPresent(l, h, x) ==
    /\ x \in Range(l)
    /\ HExists(h, payloadKey(x)) /\ HExists(h, lastCheckedKey(x)) /\ HExists(h, usageCountKey(x))
FullyAbsent(l, h, x) == x \notin Range(l) /\ NoFieldOf(h, x)

\* C19: when a PushSession of x runs while a DeleteSession of x is in flight (its
\* LREM done on an Index that no longer holds x, its HDEL still to come), the
\* store the DeleteSession leaves has x fully present or fully absent.
C19_DeleteAtomic ==
    [][\A p \in Procs, q \in Procs, x \in Ids :
          (/\ PushSession(q, PlainSession("US", x))
           /\ pc[p].op = "DeleteSession"
           /\ pc[p].country = "US" /\ pc[p].sessionID = x
           /\ x \notin Range(Index("US")))
             => LET left == HDel(Record("US")', FieldsOf(x))
                IN  \/ FullyPresent(Index("US")', left, x)
                    \/ FullyAbsent(Index("US")', left, x)]_vars

\* C20: when a DeleteSession or a CleanupSessions removes the Record of x and leaves
\* no occurrence of x in the Index, then on the store it leaves a GetSession of x
\* returns NotFound, LPOP does not hand out x, and neither ListSession nor
\* GetAllSessions returns a session of x.
C20_NoReactivation ==
    [][\A p \in Procs, x \in Ids :
          (/\ \/ DeleteSessionHDel(p) /\ pc[p].country = "US" /\ pc[p].sessionID = x
              \/ \E sweep \in Sweeps : CleanupSessions(p, sweep[1], sweep[2])
           /\ IsLive("US", x)
           /\ ~HExists(Record("US")', payloadKey(x))
           /\ x \notin Range(Index("US")'))
             => /\ GetSession(Record("US")', "US", x).err \in NotFoundErrs
                /\ LPopReply(Index("US")') # x
                /\ \A pgn \in Pages :
                      x \notin Range(SessionIDsOf(
                                       ListSession(Index("US")', Record("US")', "US", pgn).sessions))
                /\ \A keys \in KeysCookies(hashes') :
                      x \notin Range(SessionIDsOf(GetAllSessions(lists', hashes', keys).sessions))]_vars

\* C21: UpdateLastCheckedTimestamp(country, x) leaves every Index as it is; on an
\* x that has a Record it sets the lastChecked of x to the time of the call and
\* changes no other field (so a second call at the same time changes nothing);
\* on an x without a Record it creates no field.
C21_TouchOnlyLastChecked ==
    [][\A p \in Procs, x \in Ids :
          UpdateLastCheckedTimestamp(p, "US", x)
             => /\ lists' = lists
                /\ ret'.err = NoErr
                /\ IF IsLive("US", x)
                   THEN /\ Record("US")' = HSet(Record("US"), lastCheckedKey(x), now)
                        /\ HSet(Record("US")', lastCheckedKey(x), now) = Record("US")'
                   ELSE Record("US")' = Record("US")]_vars

\* C22: the Record of a session whose only Index entry PopSession has removed
\* stays in the store through the pop (payload, usage count and lastChecked are
\* all still stored), is removed by a DeleteSession of the session, and is
\* removed by a CleanupSessions whose age or usage threshold the session meets.
C22_PoppedRecordSwept ==
    [][\A p \in Procs, x \in Ids :
          /\ (/\ PopSessionLPop(p, "US")
              /\ Index("US") # <<>> /\ Head(Index("US")) = x
              /\ x \notin Range(Tail(Index("US"))))
                => hashes' = hashes
          /\ (/\ GetSessionTail(p) /\ InPop(p)
              /\ pc[p].sessionID = x /\ FullyPresent(<<x>>, Record("US"), x))
                => FullyPresent(<<x>>, Record("US")', x)
          /\ (/\ DeleteSessionHDel(p) /\ pc[p].sessionID = x
              /\ IsLive("US", x) /\ x \notin Range(Index("US")))
                => NoFieldOf(Record("US")', x)
          /\ \A sweep \in Sweeps :
                (/\ CleanupSessions(p, sweep[1], sweep[2])
                 /\ IsLive("US", x) /\ x \notin Range(Index("US"))
                 /\ OverThreshold(Record("US"), x, sweep[1], sweep[2]))
                   => NoFieldOf(Record("US")', x)]_vars

\* C23: with one caller, a PopSession that returns an error leaves the country's
\* Index as it was before the call: unchanged when LPOP finds it empty, and still
\* headed by the popped id when the GetSession of that id fails.
C23_FailedPopKeepsIndex ==
    [][\A p \in Procs, c \in Countries :
          /\ (PopSessionLPop(p, c) /\ pc'[p] = IdlePc) => Index(c)' = Index(c)
          /\ (/\ GetSessionTail(p) /\ InPop(p)
              /\ pc[p].country = c /\ ret'.err # NoErr)
                => Index(c)' = <<pc[p].sessionID>> \o Index(c)]_vars

====
